---- MODULE Spec2Model ----
(***************************************************************************)
(* ctq: a concurrent task queue (include/ctq/task_queue.h) over a chosen   *)
(* container backend (std::vector / std::list / std::deque through         *)
(* detail::queue_adapter, or ctq::circular_buffer).                        *)
(*                                                                         *)
(* The model follows basic_task_queue statement by statement: producers    *)
(* run push/emplace, each worker runs the lambda of the constructor, and   *)
(* the owner runs the implicit destructor (members destroyed in reverse    *)
(* declaration order: workers_ first, each std::jthread requesting stop    *)
(* and joining, then cv_, mutex_, q_ and cb_).                             *)
(*                                                                         *)
(* The condition variable wakes a waiter only through notify_one,          *)
(* notify_all or the stop callback of the stop_token overload of wait.     *)
(*                                                                         *)
(* Specifications:                                                         *)
(*   Spec, FairSpec  a constructed queue: producers, workers, destructor   *)
(*   CtorSpec        the same, from the first step of the constructor      *)
(*   AccessSpec      the same, with a caller of access_queue               *)
(*   FairAccessSpec  AccessSpec under strongly fair scheduling             *)
(*   ShutdownSpec    Spec, the queue destroyed under a blocked producer    *)
(*   ReentrantSpec, FairReentrantSpec  handlers that push on their queue   *)
(*   BufferSpec      a circular_buffer used directly                       *)
(*   AdapterSpec     the four backends given the same calls                *)
(***************************************************************************)
EXTENDS Integers, Sequences, FiniteSets, TLC

\* ---------------------------------------------------------------- bounds
NumProducers == 2      \* producer threads calling push / emplace
MaxWorkers   == 2      \* the constructor's `workers` ranges over 1..MaxWorkers
MaxItems     == 3      \* push/emplace calls made in all, by all producers
MaxHandlerPushes == 2  \* push calls made from inside the handler, in all
MaxSeeds     == 1      \* push calls made from outside when handlers push too
MaxCap       == 2      \* max_elements ranges over nullopt and 1..MaxCap
MaxRing      == 3      \* a circular_buffer used on its own has capacity 1..MaxRing
MaxBufOps    == 4      \* calls of each kind made on such a buffer
SizeWidth    == 3      \* bits of size_t in the model (the count wraps modulo 2^SizeWidth)

VARIABLES
    q_,          \* basic_task_queue::q_      (detail::queue_adapter<Container>)
    mutex_,      \* basic_task_queue::mutex_  (<<>> when free, else the owner)
    workers,     \* the constructor argument `workers`
    wpc,         \* position of each worker thread in the worker lambda
    item,        \* the worker lambda's local std::optional<type> item
    stop,        \* stop state of each std::jthread's stop source
    ppc,         \* position of each producer inside push / emplace
    op,          \* which of push / emplace the producer is executing
    calls,       \* number of push/emplace calls each producer has started
    dtor_pc,     \* position of the owner in ~basic_task_queue
    dtor_w,      \* the std::jthread being destroyed (0: none)
    joined,      \* workers whose std::jthread destructor has returned
    appended,    \* history: items in the order push_back/emplace_back stored them
    removed,     \* history: items in the order front()/pop_front() took them
    after_stop,  \* history: per worker, the items it took after its stop request
    handled,     \* history: items in the order cb_ was invoked on them
    pendingAtDestroy,   \* history: container contents when ~basic_task_queue began
    received,    \* history: per callback of task_queue's tuple, its arguments in order
    max_elements_arg,   \* the constructor argument `max_elements`
    ctor_pc,     \* position of the owner in basic_task_queue's constructor
    apc,         \* position of the caller of access_queue
    buf,         \* a ctq::circular_buffer<T> used on its own
    pushed,      \* history: arguments of the push_back / emplace_back calls on buf
    taken,       \* history: number of next() / pop_front() calls on buf
    yielded,     \* history: values buf returned from next() / front()
    misused,     \* history: a call on buf was made on a full / empty buffer
    ndebug,      \* whether the build defines NDEBUG (assert expands to nothing)
    aborted,     \* whether an assert of circular_buffer has aborted the program
    objects,     \* per slot of buf's storage: objects constructed there, not destroyed
    queues,      \* one queue_adapter per backend, given the same operations
    results      \* history: per backend, the elements taken from its front

\* The state of one basic_task_queue and of the threads using it.
task_vars == <<q_, mutex_, workers, wpc, item, stop, ppc, op, calls, dtor_pc, dtor_w,
               joined, appended, removed, after_stop, handled, pendingAtDestroy,
               received, max_elements_arg, ctor_pc, apc>>
\* The state of a circular_buffer used without a queue around it.
buffer_vars == <<buf, pushed, taken, yielded, misused, ndebug, aborted, objects>>
\* The state of the backends compared side by side.
adapter_vars == <<queues, results>>
\* What the steps of push / emplace, of a worker and of the destructor leave alone.
other_vars == <<max_elements_arg, ctor_pc, apc, buffer_vars, adapter_vars>>

vars == <<task_vars, buffer_vars, adapter_vars>>

Producers == 1..NumProducers
Workers   == 1..workers

\* ------------------------------------------------------- std::optional<T>
nullopt        == <<>>
some(v)        == <<v>>
has_value(o)   == Len(o) > 0
value(o)       == o[1]

\* The n-th item a producer passes to push / emplace; all items are distinct.
Item(p, n) == (p - 1) * MaxItems + n
\* A value-initialised T (what std::vector::resize puts in every ring slot).
DefaultT == 0

\* ------------------------------------------------ ctq::circular_buffer<T>
\* b_ is 1-indexed here: C++ index i is b_[i + 1].
circular_buffer(max_size) ==
    [kind |-> "circular_buffer", max_elements_ |-> nullopt, elems |-> <<>>,
     b_ |-> [i \in 1..max_size |-> DefaultT], cnt_ |-> 0, read_pnt_ |-> 0]

cb_capacity(c) == Len(c.b_)
cb_empty(c)    == c.cnt_ = 0
cb_size(c)     == c.cnt_
\* Fault variant: reads the first slot of storage whatever the read position.
cb_front_slot0(c) == c.b_[1]
cb_front(c)    == c.b_[c.read_pnt_ + 1]

\* size_t arithmetic is modulo 2^SizeWidth.
SizeMod == 2 ^ SizeWidth
size_t(n) == n % SizeMod

\* Fault variant: front() consumes the element it returns.
cb_front_consumes(c) ==
    [c EXCEPT !.cnt_ = size_t(c.cnt_ - 1),
              !.read_pnt_ = size_t(c.read_pnt_ + 1) % Len(c.b_)]

\* The buffer after front(): `return b_[read_pnt_];` copies the element out
\* and assigns to no member.
cb_front_leaves(c) == c

\* Fault variant: the write index is computed without the read position.
cb_push_back_noread(c, v) ==
    [c EXCEPT !.b_[(c.cnt_ % Len(c.b_)) + 1] = v, !.cnt_ = size_t(c.cnt_ + 1)]

cb_push_back(c, v) ==
    LET i == size_t(c.read_pnt_ + c.cnt_) % Len(c.b_)
    IN  [c EXCEPT !.b_[i + 1] = v, !.cnt_ = size_t(c.cnt_ + 1)]

\* Fault variant: the element is constructed one slot too far.
cb_emplace_back_next(c, v) ==
    LET i == size_t(c.read_pnt_ + c.cnt_ + 1) % Len(c.b_)
    IN  [c EXCEPT !.b_[i + 1] = v, !.cnt_ = size_t(c.cnt_ + 1)]

cb_emplace_back(c, v) ==
    LET i == size_t(c.read_pnt_ + c.cnt_) % Len(c.b_)
    IN  [c EXCEPT !.b_[i + 1] = v, !.cnt_ = size_t(c.cnt_ + 1)]

\* Fault variant: the count is decremented but the read position stays.
cb_pop_front_stay(c) == [c EXCEPT !.cnt_ = size_t(c.cnt_ - 1)]

\* Fault variant: the read position is not brought back to 0 at the end.
cb_pop_front_nowrap(c) ==
    [c EXCEPT !.cnt_ = size_t(c.cnt_ - 1), !.read_pnt_ = size_t(c.read_pnt_ + 1)]

\* --cnt_; ++read_pnt_; if (read_pnt_ == b_.size()) read_pnt_ = 0;
cb_pop_front(c) ==
    LET r == size_t(c.read_pnt_ + 1)
    IN  [c EXCEPT !.cnt_ = size_t(c.cnt_ - 1),
                  !.read_pnt_ = IF r = Len(c.b_) THEN 0 ELSE r]

\* Fault variant: the element is read at the read position after its advance.
cb_next_after(c) ==
    LET r    == size_t(c.read_pnt_ + 1)
        read == IF r = Len(c.b_) THEN 0 ELSE r
    IN  [buffer |-> [c EXCEPT !.cnt_ = size_t(c.cnt_ - 1), !.read_pnt_ = read],
         ret    |-> c.b_[read + 1]]

\* next(): --cnt_; auto i = read_pnt_++; if (read_pnt_ == b_.size())
\* read_pnt_ = 0; return b_[i];  -- the buffer after the call and the value
\* returned.
cb_next(c) ==
    LET i    == c.read_pnt_
        r    == size_t(i + 1)
        read == IF r = Len(c.b_) THEN 0 ELSE r
    IN  [buffer |-> [c EXCEPT !.cnt_ = size_t(c.cnt_ - 1), !.read_pnt_ = read],
         ret    |-> c.b_[i + 1]]

\* The conditions of the assert statements.
push_assert(c)  == c.cnt_ <= Len(c.b_) /\ c.read_pnt_ < Len(c.b_)
front_assert(c) == c.cnt_ > 0

\* ------------------------------------------------- detail::queue_adapter
\* Standard containers: elems is the element sequence, front first.
std_adapter(kind, max_elements) ==
    [kind |-> kind, max_elements_ |-> max_elements, elems |-> <<>>,
     b_ |-> <<>>, cnt_ |-> 0, read_pnt_ |-> 0]

\* queue_adapter<circular_buffer<T>>: circular_buffer<T>(*max_elements)
cb_adapter(max_elements) == circular_buffer(value(max_elements))

IsRing(q) == q.kind = "circular_buffer"

\* Fault variant: every queue reports a bound of one element.
max_elements_one(q) == some(1)

max_elements(q) ==
    IF IsRing(q) THEN some(cb_capacity(q)) ELSE q.max_elements_

q_empty(q) == IF IsRing(q) THEN cb_empty(q) ELSE q.elems = <<>>
q_size(q)  == IF IsRing(q) THEN cb_size(q) ELSE Len(q.elems)
\* Fault variant: reads the newest element instead of the oldest.
q_back(q) ==
    IF IsRing(q) THEN q.b_[((q.read_pnt_ + q.cnt_ - 1) % Len(q.b_)) + 1]
    ELSE q.elems[Len(q.elems)]

q_front(q) == IF IsRing(q) THEN cb_front(q) ELSE Head(q.elems)

\* Fault variant: erases the last element instead of the first.
vector_pop_back(q) == [q EXCEPT !.elems = SubSeq(q.elems, 1, Len(q.elems) - 1)]

\* queue_adapter<std::vector<T>>::pop_front: erase(begin()); list and deque
\* use their own pop_front.
vector_pop_front(q) == [q EXCEPT !.elems = Tail(q.elems)]

\* Fault variant: the element behind the first is removed with it.
native_pop_two(q) ==
    [q EXCEPT !.elems = SubSeq(q.elems, IF Len(q.elems) > 1 THEN 3 ELSE 2,
                               Len(q.elems))]

\* std::deque / std::list pop_front.
native_pop_front(q) == [q EXCEPT !.elems = Tail(q.elems)]

q_pop_front(q) ==
    IF IsRing(q) THEN cb_pop_front(q)
    ELSE IF q.kind = "vector" THEN vector_pop_front(q)
    ELSE native_pop_front(q)

\* Fault variant: the item is inserted before the ones already queued.
q_push_front(q, v) ==
    IF IsRing(q) THEN [q EXCEPT !.b_[q.read_pnt_ + 1] = v, !.cnt_ = q.cnt_ + 1]
    ELSE [q EXCEPT !.elems = <<v>> \o q.elems]

q_push_back(q, v) ==
    IF IsRing(q) THEN cb_push_back(q, v)
    ELSE [q EXCEPT !.elems = Append(q.elems, v)]

\* Fault variant: constructs the new element at the front.
q_emplace_front(q, v) ==
    IF IsRing(q) THEN [q EXCEPT !.b_[q.read_pnt_ + 1] = v, !.cnt_ = q.cnt_ + 1]
    ELSE [q EXCEPT !.elems = <<v>> \o q.elems]

q_emplace_back(q, v) ==
    IF IsRing(q) THEN cb_emplace_back(q, v)
    ELSE [q EXCEPT !.elems = Append(q.elems, v)]

\* The live elements of the container, front first.
RECURSIVE RingItems(_, _)
RingItems(c, n) ==
    IF n = 0 THEN <<>>
    ELSE Append(RingItems(c, n - 1),
                c.b_[((c.read_pnt_ + n - 1) % Len(c.b_)) + 1])

Contents(q) == IF IsRing(q) THEN RingItems(q, q.cnt_) ELSE q.elems


\* ------------------------------------------------------------ threads, cv_
P(p) == <<"P", p>>
W(w) == <<"W", w>>
free == <<>>

\* Threads blocked in cv_.wait (std::condition_variable_any cv_).
Waiting ==
    {P(p) : p \in {x \in Producers : ppc[x] = "wait"}}
    \cup {W(w) : w \in {x \in Workers : wpc[x] \in {"wait", "cb_wait"}}}

\* A woken thread leaves the wait set; it must re-acquire mutex_ ("lock") and
\* then re-evaluate its wait predicate.
WokenW(S) ==
    [w \in Workers |->
        IF W(w) \notin S THEN wpc[w]
        ELSE IF wpc[w] = "cb_wait" THEN "cb_lock" ELSE "lock"]
WokenP(S) == [p \in Producers |-> IF P(p) \in S THEN "lock" ELSE ppc[p]]

\* cv_.notify_one(): the sets of threads it may wake (one arbitrary waiter of
\* the single condition variable, producer or worker; nobody when none waits).
notify_one == IF Waiting = {} THEN {{}} ELSE {{t} : t \in Waiting}
\* cv_.notify_all()
notify_all == {Waiting}

\* ------------------------------------------ task_queue<Container, Ts...>
\* The multi-type queue holds std::variant<Ts...> items and a tuple of
\* callbacks, std::function<void(Ts)>...; its cb_ is the dispatching lambda.
Ts == <<"int", "string">>

\* The alternative an item holds (std::variant::index()); the callers pass
\* items of alternating types, as in push(10), push("a"), push(20), push("b").
index(v) == v % Len(Ts)

\* std::visit(lambda, item): the lambda is instantiated for the alternative
\* held; T = std::decay_t<decltype(arg)>.
visit(v) == Ts[index(v) + 1]

\* using callbacks = std::tuple<std::function<void(Ts)>...>: the parameter
\* type of each element of the tuple.
callbacks == [k \in 1..Len(Ts) |-> Ts[k]]

\* Fault variant: a lookup by position that ignores the type.
get_first(T) == 1

\* std::get<std::function<void(T)>>(cb): the element of that type.
get(T) == CHOOSE k \in 1..Len(callbacks) : callbacks[k] = T

\* What the unused parts hold while a queue is being exercised.
BufferUnused ==
    /\ buf = <<>>
    /\ pushed = <<>>
    /\ taken = 0
    /\ yielded = <<>>
    /\ misused = FALSE
    /\ ndebug = FALSE
    /\ aborted = FALSE
    /\ objects = <<>>

AdaptersUnused ==
    /\ queues = <<>>
    /\ results = <<>>

\* -------------------------------------------------------------- Init
\* std::vector and circular_buffer have their own adapter specialisation;
\* std::list and std::deque use the primary template.
Backends == {"vector", "list", "deque", "circular_buffer"}

MaxElements == {nullopt} \cup {some(k) : k \in 1..MaxCap}

\* basic_task_queue(cb, max_elements, workers): q_(max_elements), then the
\* worker threads are started.  A circular_buffer backend dereferences
\* max_elements, so it is constructed with a value here; CtorSpec follows the
\* constructor itself, for every argument.
Init ==
    /\ workers \in 1..MaxWorkers
    /\ \E kind \in Backends, m \in MaxElements :
          /\ kind = "circular_buffer" => has_value(m)
          /\ max_elements_arg = m
          /\ q_ = IF kind = "circular_buffer" THEN cb_adapter(m)
                  ELSE std_adapter(kind, m)
    /\ mutex_ = free
    /\ wpc = [w \in Workers |-> "loop"]
    /\ item = [w \in Workers |-> nullopt]
    /\ stop = [w \in Workers |-> FALSE]
    /\ ppc = [p \in Producers |-> "idle"]
    /\ op = [p \in Producers |-> "none"]
    /\ calls = [p \in Producers |-> 0]
    /\ dtor_pc = "alive"
    /\ dtor_w = 0
    /\ joined = {}
    /\ appended = <<>>
    /\ removed = <<>>
    /\ after_stop = [w \in Workers |-> <<>>]
    /\ handled = <<>>
    /\ pendingAtDestroy = <<>>
    /\ received = [k \in 1..Len(Ts) |-> <<>>]
    /\ ctor_pc = "done"
    /\ apc = "idle"
    /\ BufferUnused
    /\ AdaptersUnused

\* ------------------------------------------------- push / emplace (producer)
\* Positions of a producer: "idle" (outside push/emplace), "lock" (at
\* std::unique_lock lock(mutex_), or woken inside cv_.wait and re-acquiring
\* the lock), "wait" (blocked in cv_.wait), "append" (lock held, predicate
\* passed), "notify" (lock released, at cv_.notify_one()).

\* Fault variant: off by one: lets a producer through when the queue is full.
push_pred_le(q) == q_size(q) <= value(max_elements(q))

\* The predicate of cv_.wait in push and emplace.
push_pred(q) == q_size(q) < value(max_elements(q))

\* Fault variant: no mutual exclusion: the lock is granted whoever holds it.
lockable_always == TRUE

\* mutex_ can be acquired.
lockable == mutex_ = free

\* The number of push/emplace calls started so far.
RECURSIVE SumCalls(_)
SumCalls(n) == IF n = 0 THEN 0 ELSE calls[n] + SumCalls(n - 1)
TotalCalls == SumCalls(NumProducers)

\* A caller enters push(item) or emplace(args...).
ProducerCall(p, o) ==
    /\ ctor_pc = "done"
    /\ dtor_pc = "alive"
    /\ ppc[p] = "idle"
    /\ TotalCalls < MaxItems
    /\ calls' = [calls EXCEPT ![p] = @ + 1]
    /\ op' = [op EXCEPT ![p] = o]
    /\ ppc' = [ppc EXCEPT ![p] = "lock"]
    /\ UNCHANGED <<removed, after_stop, received, q_, mutex_, workers, wpc,
                   item, stop, dtor_pc, dtor_w, joined, appended, handled,
                   pendingAtDestroy, other_vars>>

\* std::unique_lock lock(mutex_);
\* if (q_.max_elements().has_value()) cv_.wait(lock, pred);
\* The lock is acquired (first, or again after a wake-up) and the predicate
\* evaluated under it; a false predicate releases the lock and blocks.
ProducerLock(p) ==
    /\ ppc[p] = "lock"
    /\ lockable
    /\ IF has_value(max_elements(q_)) /\ ~push_pred(q_)
       THEN /\ mutex_' = free
            /\ ppc' = [ppc EXCEPT ![p] = "wait"]
       ELSE /\ mutex_' = P(p)
            /\ ppc' = [ppc EXCEPT ![p] = "append"]
    /\ UNCHANGED <<removed, after_stop, received, q_, workers, wpc, item,
                   stop, op, calls, dtor_pc, dtor_w, joined, appended,
                   handled, pendingAtDestroy, other_vars>>

\* q_.push_back(std::move(item)) / q_.emplace_back(std::forward<Args>(args)...)
\* and the end of the block, which releases the lock.
ProducerAppend(p) ==
    /\ ppc[p] = "append"
    /\ LET v == Item(p, calls[p])
       IN  /\ q_' = IF op[p] = "push" THEN q_push_back(q_, v)
                    ELSE q_emplace_back(q_, v)
           /\ appended' = Append(appended, v)
    /\ mutex_' = free
    /\ ppc' = [ppc EXCEPT ![p] = "notify"]
    /\ UNCHANGED <<removed, after_stop, received, workers, wpc, item, stop,
                   op, calls, dtor_pc, dtor_w, joined, handled,
                   pendingAtDestroy, other_vars>>

\* cv_.notify_one(); return
ProducerNotify(p) ==
    /\ ppc[p] = "notify"
    /\ \E S \in notify_one :
          /\ wpc' = WokenW(S)
          /\ ppc' = [WokenP(S) EXCEPT ![p] = "idle"]
    /\ op' = [op EXCEPT ![p] = "none"]
    /\ UNCHANGED <<removed, after_stop, received, q_, mutex_, workers, item,
                   stop, calls, dtor_pc, dtor_w, joined, appended, handled,
                   pendingAtDestroy, other_vars>>

\* ------------------------------------------------------ the worker lambda
\* Positions of a worker: "loop" (at the while condition), "lock" (at
\* std::unique_lock lock(mutex_), or woken inside cv_.wait and re-acquiring
\* the lock), "wait" (blocked in cv_.wait), "pop" (lock held, wait returned
\* true), "unlock" (item popped and notification issued, lock still held),
\* "in_cb" (inside cb_), "exited" (the thread function has returned).

\* The predicate of cv_.wait(lock, st, pred) in the worker.
worker_pred(q) == ~q_empty(q)

\* Fault variant: the stop request is never seen.
stop_never(w) == FALSE

\* st.stop_requested() on the worker's stop_token
stop_requested(w) == stop[w]

\* while (!st.stop_requested())
WorkerLoop(w) ==
    /\ wpc[w] = "loop"
    /\ wpc' = [wpc EXCEPT ![w] = IF stop_requested(w) THEN "exited" ELSE "lock"]
    /\ UNCHANGED <<removed, after_stop, received, q_, mutex_, workers, item,
                   stop, ppc, op, calls, dtor_pc, dtor_w, joined, appended,
                   handled, pendingAtDestroy, other_vars>>

\* Where cv_.wait(lock, st, pred) leaves the worker:
\*   while (!st.stop_requested()) { if (pred()) return true; wait(lock); }
\*   return pred();
\* "pop" when it returns true, "exited" when it returns false (the worker
\* returns), "wait" when it blocks.
wait_outcome(w) ==
    IF worker_pred(q_) THEN "pop"
    ELSE IF stop_requested(w) THEN "exited" ELSE "wait"

\* std::unique_lock lock(mutex_); if (!cv_.wait(lock, st, pred)) return;
\* The lock is acquired (first, or again after a wake-up) and the wait's
\* condition evaluated under it.
WorkerLock(w) ==
    /\ wpc[w] = "lock"
    /\ lockable
    /\ wpc' = [wpc EXCEPT ![w] = wait_outcome(w)]
    /\ mutex_' = IF wait_outcome(w) = "pop" THEN W(w) ELSE free
    /\ UNCHANGED <<removed, after_stop, received, q_, workers, item, stop,
                   ppc, op, calls, dtor_pc, dtor_w, joined, appended, handled,
                   pendingAtDestroy, other_vars>>

\* Fault variant: the worker notifies nobody after popping.
worker_notify_none == {{}}

\* The notification a worker issues after popping, inside the locked block:
\* if (q_.max_elements().has_value()) cv_.notify_all();
worker_notify == IF has_value(max_elements(q_)) THEN notify_all ELSE {{}}

\* item = std::move(q_.front()); q_.pop_front(); and the notification.
WorkerPop(w) ==
    /\ wpc[w] = "pop"
    /\ item' = [item EXCEPT ![w] = some(q_front(q_))]
    /\ removed' = Append(removed, q_front(q_))
    /\ after_stop' = IF stop[w]
                     THEN [after_stop EXCEPT ![w] = Append(@, q_front(q_))]
                     ELSE after_stop
    /\ q_' = q_pop_front(q_)
    /\ \E S \in worker_notify :
          /\ wpc' = [WokenW(S) EXCEPT ![w] = "unlock"]
          /\ ppc' = WokenP(S)
    /\ UNCHANGED <<received, mutex_, workers, stop, op, calls, dtor_pc,
                   dtor_w, joined, appended, handled, pendingAtDestroy,
                   other_vars>>

\* Fault variant: the lock is still owned when the block is left.
block_end_locked(w) == W(w)

\* The closing brace of the locked block: ~unique_lock releases mutex_.
block_end(w) == free

\* The end of the locked block releases the lock; then cb_(std::move(*item))
\* is entered: std::visit finds the alternative held, std::get the callback
\* of that type, and the callback is called with the item.
WorkerCall(w) ==
    /\ wpc[w] = "unlock"
    /\ mutex_' = block_end(w)
    /\ handled' = Append(handled, value(item[w]))
    /\ LET c == get(visit(value(item[w])))
       IN  received' = [received EXCEPT ![c] = Append(@, value(item[w]))]
    /\ item' = [item EXCEPT ![w] = nullopt]
    /\ wpc' = [wpc EXCEPT ![w] = "in_cb"]
    /\ UNCHANGED <<removed, after_stop, q_, workers, stop, ppc, op, calls,
                   dtor_pc, dtor_w, joined, appended, pendingAtDestroy,
                   other_vars>>

\* cb_ returns; the next iteration begins.
WorkerReturn(w) ==
    /\ wpc[w] = "in_cb"
    /\ wpc' = [wpc EXCEPT ![w] = "loop"]
    /\ UNCHANGED <<removed, after_stop, received, q_, mutex_, workers, item,
                   stop, ppc, op, calls, dtor_pc, dtor_w, joined, appended,
                   handled, pendingAtDestroy, other_vars>>

\* ------------------------------------------------- ~basic_task_queue
\* The destructor is defaulted: the members are destroyed in reverse order
\* of declaration, workers_ (std::vector<std::jthread>) first.
\* The owner destroys the queue when no caller is inside push or emplace (an
\* object may not be destroyed while a member function runs on it), and no
\* call is made on it afterwards.
DtorBegin ==
    /\ ctor_pc = "done"
    /\ dtor_pc = "alive"
    /\ \A p \in Producers : ppc[p] = "idle"
    /\ apc = "idle"
    /\ dtor_pc' = "workers"
    /\ pendingAtDestroy' = Contents(q_)
    /\ UNCHANGED <<removed, after_stop, received, q_, mutex_, workers, wpc,
                   item, stop, ppc, op, calls, dtor_w, joined, appended,
                   handled, other_vars>>

\* Fault variant: a stop request that notifies nobody (wait without the stop_token).
stop_no_notify(w) == {{}}

\* The notification that comes with a stop request.  cv_.wait(lock, st, pred)
\* registers a stop callback that calls notify_all for the duration of the
\* call: a worker blocked in the wait is always notified; one that is about
\* to enter the wait, or is re-acquiring the lock inside it, may or may not
\* have the callback registered.
stop_notify(w) ==
    IF wpc[w] = "wait" THEN notify_all
    ELSE IF wpc[w] = "lock" THEN notify_all \cup {{}}
    ELSE {{}}

\* Fault variant: a producer woken by the stop request gives up and returns,
\* as a wait that took the stop_token would let it.
stop_aborts(S) == [p \in Producers |-> IF P(p) \in S THEN "idle" ELSE ppc[p]]

\* A producer blocked in cv_.wait(lock, pred) shares cv_ with the workers: the
\* notify_all of a stop request wakes it too.  Its wait takes no stop_token:
\* it re-acquires the lock and evaluates its predicate again.
stop_wakes(S) == WokenP(S)

\* ~jthread: if (joinable()) { request_stop(); join(); } -- request_stop.
\* The jthreads of workers_ are destroyed one after the other; the order in
\* which a vector destroys its elements is left open.
DtorRequestStop(w) ==
    /\ dtor_pc = "workers"
    /\ w \in Workers \ joined
    /\ stop' = [stop EXCEPT ![w] = TRUE]
    /\ \E S \in stop_notify(w) :
          /\ wpc' = WokenW(S)
          /\ ppc' = stop_wakes(S)
    /\ dtor_w' = w
    /\ dtor_pc' = "join"
    /\ UNCHANGED <<removed, after_stop, received, q_, mutex_, workers, item,
                   op, calls, joined, appended, handled, pendingAtDestroy,
                   other_vars>>

\* Fault variant: the thread is not waited for (as if detached).
join_detached(w) == TRUE

\* join() returns once the thread function has returned.
join_ready(w) == wpc[w] = "exited"

DtorJoin ==
    /\ dtor_pc = "join"
    /\ join_ready(dtor_w)
    /\ joined' = joined \cup {dtor_w}
    /\ dtor_w' = 0
    /\ dtor_pc' = "workers"
    /\ UNCHANGED <<removed, after_stop, received, q_, mutex_, workers, wpc,
                   item, stop, ppc, op, calls, appended, handled,
                   pendingAtDestroy, other_vars>>

\* workers_ is gone; cv_, mutex_, q_ and cb_ are destroyed and the destructor
\* returns.  No thread is inside push or emplace.
DtorMembers ==
    /\ dtor_pc = "workers"
    /\ joined = Workers
    /\ \A p \in Producers : ppc[p] = "idle"
    /\ dtor_pc' = "done"
    /\ UNCHANGED <<removed, after_stop, received, q_, mutex_, workers, wpc,
                   item, stop, ppc, op, calls, dtor_w, joined, appended,
                   handled, pendingAtDestroy, other_vars>>

\* ------------------------------------------------------------ Next, Spec
Producer(p) ==
    \/ ProducerCall(p, "push")
    \/ ProducerCall(p, "emplace")
    \/ ProducerLock(p)
    \/ ProducerAppend(p)
    \/ ProducerNotify(p)

\* The steps of a producer that is inside push / emplace.
ProducerRun(p) ==
    \/ ProducerLock(p)
    \/ ProducerAppend(p)
    \/ ProducerNotify(p)

Worker(w) ==
    \/ WorkerLoop(w)
    \/ WorkerLock(w)
    \/ WorkerPop(w)
    \/ WorkerCall(w)
    \/ WorkerReturn(w)

\* The steps of the destructor once it has been entered.
DtorRun ==
    \/ \E w \in Workers : DtorRequestStop(w)
    \/ DtorJoin
    \/ DtorMembers

Next ==
    \/ \E p \in Producers : Producer(p)
    \/ \E w \in Workers : Worker(w)
    \/ DtorBegin
    \/ DtorRun

Spec == Init /\ [][Next]_vars


\* ------------------------------------- destruction under a running producer
\* Nothing in the class stops an owner from destroying the queue while another
\* thread is still inside push or emplace, blocked on the full queue.
DtorBeginBusy ==
    /\ ctor_pc = "done"
    /\ dtor_pc = "alive"
    /\ \E p \in Producers : ppc[p] = "wait"
    /\ apc = "idle"
    /\ dtor_pc' = "workers"
    /\ pendingAtDestroy' = Contents(q_)
    /\ UNCHANGED <<removed, after_stop, received, q_, mutex_, workers, wpc,
                   item, stop, ppc, op, calls, dtor_w, joined, appended,
                   handled, other_vars>>

\* What destroying cv_, mutex_ and q_ under a thread that is inside push or
\* emplace can come to (undefined behaviour): the destructor returns and the
\* producer goes on with the dead members' storage ("done"); the destructor
\* hangs in the destruction of the condition variable, which waits for its
\* waiters ("hung"); the process is terminated and no call returns
\* ("crashed").
DtorMembersOutcomes == {"done", "hung", "crashed"}

DtorMembersBusy ==
    /\ dtor_pc = "workers"
    /\ joined = Workers
    /\ \E p \in Producers : ppc[p] # "idle"
    /\ \E o \in DtorMembersOutcomes :
          /\ dtor_pc' = o
          /\ ppc' = IF o = "crashed"
                    THEN [p \in Producers |->
                            IF ppc[p] = "idle" THEN "idle" ELSE "crashed"]
                    ELSE ppc
    /\ UNCHANGED <<removed, after_stop, received, q_, mutex_, workers, wpc,
                   item, stop, op, calls, dtor_w, joined, appended, handled,
                   pendingAtDestroy, other_vars>>

ShutdownNext ==
    \/ Next
    \/ DtorBeginBusy
    \/ DtorMembersBusy

ShutdownSpec == Init /\ [][ShutdownNext]_vars

\* --------------------------------------------- push from inside the handler
\* The handler is user code run by the worker thread: it may call push on the
\* queue that runs it.  Positions of a worker inside such a handler: "cb_lock"
\* (at push's std::unique_lock, or woken and re-acquiring), "cb_wait" (blocked
\* in push's cv_.wait), "cb_append" (lock held), "cb_notify" (lock released,
\* at cv_.notify_one()), "cb_done" (push has returned, still in the handler).
HandlerItem(n) == NumProducers * MaxItems + n
HandlerItems == {HandlerItem(n) : n \in 1..MaxHandlerPushes}

\* The handler items stored so far, and the push calls handlers have started.
HandlerAppended ==
    Cardinality({i \in 1..Len(appended) : appended[i] \in HandlerItems})
HandlerPushes ==
    HandlerAppended
        + Cardinality({w \in Workers : wpc[w] \in {"cb_lock", "cb_wait", "cb_append"}})

\* cb_ calls push(item) on its own queue.
HandlerCall(w) ==
    /\ wpc[w] = "in_cb"
    /\ HandlerPushes < MaxHandlerPushes
    /\ wpc' = [wpc EXCEPT ![w] = "cb_lock"]
    /\ UNCHANGED <<removed, after_stop, received, q_, mutex_, workers, item,
                   stop, ppc, op, calls, dtor_pc, dtor_w, joined, appended,
                   handled, pendingAtDestroy, other_vars>>

\* push, run by the worker thread: lock and cv_.wait(lock, pred) if bounded.
HandlerLock(w) ==
    /\ wpc[w] = "cb_lock"
    /\ lockable
    /\ IF has_value(max_elements(q_)) /\ ~push_pred(q_)
       THEN /\ mutex_' = free
            /\ wpc' = [wpc EXCEPT ![w] = "cb_wait"]
       ELSE /\ mutex_' = W(w)
            /\ wpc' = [wpc EXCEPT ![w] = "cb_append"]
    /\ UNCHANGED <<removed, after_stop, received, q_, workers, item, stop,
                   ppc, op, calls, dtor_pc, dtor_w, joined, appended, handled,
                   pendingAtDestroy, other_vars>>

\* q_.push_back(std::move(item)) and the end of the locked block.
HandlerAppend(w) ==
    /\ wpc[w] = "cb_append"
    /\ LET v == HandlerItem(HandlerAppended + 1)
       IN  /\ q_' = q_push_back(q_, v)
           /\ appended' = Append(appended, v)
    /\ mutex_' = free
    /\ wpc' = [wpc EXCEPT ![w] = "cb_notify"]
    /\ UNCHANGED <<removed, after_stop, received, workers, item, stop, ppc,
                   op, calls, dtor_pc, dtor_w, joined, handled,
                   pendingAtDestroy, other_vars>>

\* cv_.notify_one(); push returns into the handler.
HandlerNotify(w) ==
    /\ wpc[w] = "cb_notify"
    /\ \E S \in notify_one :
          /\ wpc' = [WokenW(S) EXCEPT ![w] = "cb_done"]
          /\ ppc' = WokenP(S)
    /\ UNCHANGED <<removed, after_stop, received, q_, mutex_, workers, item,
                   stop, op, calls, dtor_pc, dtor_w, joined, appended, handled,
                   pendingAtDestroy, other_vars>>

\* cb_ returns after its push; the next iteration begins.
HandlerReturn(w) ==
    /\ wpc[w] = "cb_done"
    /\ wpc' = [wpc EXCEPT ![w] = "loop"]
    /\ UNCHANGED <<removed, after_stop, received, q_, mutex_, workers, item,
                   stop, ppc, op, calls, dtor_pc, dtor_w, joined, appended,
                   handled, pendingAtDestroy, other_vars>>

\* The steps of a push that a handler has begun.
HandlerRun(w) ==
    \/ HandlerLock(w)
    \/ HandlerAppend(w)
    \/ HandlerNotify(w)
    \/ HandlerReturn(w)

\* A caller outside the queue enters push(item).
SeedCall(p) == TotalCalls < MaxSeeds /\ ProducerCall(p, "push")

ReentrantNext ==
    \/ \E p \in Producers : SeedCall(p) \/ ProducerRun(p)
    \/ \E w \in Workers : Worker(w)
    \/ DtorBegin
    \/ DtorRun
    \/ \E w \in Workers : HandlerCall(w)
    \/ \E w \in Workers : HandlerRun(w)

ReentrantSpec == Init /\ [][ReentrantNext]_vars

\* Fair scheduling of the threads and of the destructor; a handler is free
\* to push or not.
FairReentrantSpec ==
    /\ ReentrantSpec
    /\ \A p \in Producers : WF_vars(ProducerRun(p))
    /\ \A w \in 1..MaxWorkers :
          WF_vars(w \in Workers /\ (Worker(w) \/ HandlerRun(w)))
    /\ WF_vars(DtorRun)

\* Fair scheduling: a thread that can take a step eventually takes one; the
\* destructor, once entered, runs on.  Nothing obliges a caller to call push
\* or to destroy the queue.
FairSpec ==
    /\ Spec
    /\ \A p \in Producers : WF_vars(ProducerRun(p))
    /\ \A w \in 1..MaxWorkers : WF_vars(w \in Workers /\ Worker(w))
    /\ WF_vars(DtorRun)

\* ------------------------------------- basic_task_queue::basic_task_queue
\* The constructor step by step, for every backend and every max_elements,
\* a circular_buffer backend without a value included.
\* Positions of the owner: "start", "body" (members initialised, in the loop
\* that starts the workers), "done" (returned), "aborted" (the program was
\* terminated), "threw" (the constructor was left by an exception).
unconstructed == [kind |-> "none"]

CtorInit ==
    /\ workers \in 1..MaxWorkers
    /\ max_elements_arg \in MaxElements
    /\ ctor_pc = "start"
    /\ q_ = unconstructed
    /\ mutex_ = free
    /\ wpc = [w \in Workers |-> "unstarted"]
    /\ item = [w \in Workers |-> nullopt]
    /\ stop = [w \in Workers |-> FALSE]
    /\ ppc = [p \in Producers |-> "idle"]
    /\ op = [p \in Producers |-> "none"]
    /\ calls = [p \in Producers |-> 0]
    /\ dtor_pc = "alive"
    /\ dtor_w = 0
    /\ joined = {}
    /\ appended = <<>>
    /\ removed = <<>>
    /\ after_stop = [w \in Workers |-> <<>>]
    /\ handled = <<>>
    /\ pendingAtDestroy = <<>>
    /\ received = [k \in 1..Len(Ts) |-> <<>>]
    /\ apc = "idle"
    /\ BufferUnused
    /\ AdaptersUnused

\* *max_elements on an optional without a value is undefined behaviour.  What
\* a build can make of circular_buffer<T>(*max_elements) then: "abort" (a
\* library built with assertions terminates the program), "throw" (the
\* indeterminate value read is too large for b_.resize, which throws), or a
\* buffer of whatever small size was read, 0 included.
deref_nullopt ==
    {[what |-> "abort", n |-> 0], [what |-> "throw", n |-> 0]}
    \cup {[what |-> "size", n |-> n] : n \in 0..MaxCap}

\* : cb_(std::move(cb)), q_(max_elements)
CtorMembers(kind) ==
    /\ ctor_pc = "start"
    /\ IF kind # "circular_buffer"
       THEN q_' = std_adapter(kind, max_elements_arg) /\ ctor_pc' = "body"
       ELSE IF has_value(max_elements_arg)
       THEN q_' = cb_adapter(max_elements_arg) /\ ctor_pc' = "body"
       ELSE \E r \in deref_nullopt :
               IF r.what = "abort" THEN q_' = q_ /\ ctor_pc' = "aborted"
               ELSE IF r.what = "throw" THEN q_' = q_ /\ ctor_pc' = "threw"
               ELSE q_' = circular_buffer(r.n) /\ ctor_pc' = "body"
    /\ UNCHANGED <<mutex_, workers, wpc, item, stop, ppc, op, calls, dtor_pc,
                   dtor_w, joined, appended, removed, after_stop, handled,
                   pendingAtDestroy, received, max_elements_arg, apc,
                   buffer_vars, adapter_vars>>

\* for (size_t i = 0; i < workers; ++i) workers_.emplace_back(lambda): one
\* iteration; the thread started runs from then on.
CtorStartWorker ==
    /\ ctor_pc = "body"
    /\ \E w \in Workers :
          /\ wpc[w] = "unstarted"
          /\ \A x \in 1..(w - 1) : wpc[x] # "unstarted"
          /\ wpc' = [wpc EXCEPT ![w] = "loop"]
    /\ UNCHANGED <<q_, mutex_, workers, item, stop, ppc, op, calls, dtor_pc,
                   dtor_w, joined, appended, removed, after_stop, handled,
                   pendingAtDestroy, received, max_elements_arg, ctor_pc, apc,
                   buffer_vars, adapter_vars>>

\* Fault variant: the loop is left after its first iteration.
loop_done_early == \E w \in Workers : wpc[w] # "unstarted"

\* i < workers is false: every iteration has started its thread.
loop_done == \A w \in Workers : wpc[w] # "unstarted"

\* The loop is over and the constructor returns.
CtorReturn ==
    /\ ctor_pc = "body"
    /\ loop_done
    /\ ctor_pc' = "done"
    /\ UNCHANGED <<q_, mutex_, workers, wpc, item, stop, ppc, op, calls,
                   dtor_pc, dtor_w, joined, appended, removed, after_stop,
                   handled, pendingAtDestroy, received, max_elements_arg, apc,
                   buffer_vars, adapter_vars>>

CtorNext ==
    \/ \E kind \in Backends : CtorMembers(kind)
    \/ CtorStartWorker
    \/ CtorReturn
    \/ \E p \in Producers : Producer(p)
    \/ \E w \in Workers : Worker(w)
    \/ DtorBegin
    \/ DtorRun

CtorSpec == CtorInit /\ [][CtorNext]_vars

\* ------------------------------------------- access_queue(f)
\* One more thread calls access_queue while producers and workers run.
\* Positions of the caller: "idle", "lock" (at std::unique_lock lock(mutex_)),
\* "in_f" (lock held, f called), "f_done" (f has returned, lock still held).

\* Fault variant: f is run without owning the mutex.
nobody == <<>>

\* The caller of access_queue, as owner of mutex_.
A == <<"A", 0>>

\* What the function passed does with the container (README: q.size(),
\* q.clear()); circular_buffer has no clear().
Functions(q) == IF IsRing(q) THEN {"size"} ELSE {"size", "clear"}

f(q, what) == IF what = "clear" THEN [q EXCEPT !.elems = <<>>] ELSE q

AccessCall ==
    /\ ctor_pc = "done"
    /\ dtor_pc = "alive"
    /\ apc = "idle"
    /\ apc' = "lock"
    /\ UNCHANGED <<q_, mutex_, workers, wpc, item, stop, ppc, op, calls,
                   dtor_pc, dtor_w, joined, appended, removed, after_stop,
                   handled, pendingAtDestroy, received, max_elements_arg,
                   ctor_pc, buffer_vars, adapter_vars>>

\* std::unique_lock lock(mutex_);
AccessLock ==
    /\ apc = "lock"
    /\ lockable
    /\ mutex_' = A
    /\ apc' = "in_f"
    /\ UNCHANGED <<q_, workers, wpc, item, stop, ppc, op, calls, dtor_pc,
                   dtor_w, joined, appended, removed, after_stop, handled,
                   pendingAtDestroy, received, max_elements_arg, ctor_pc,
                   buffer_vars, adapter_vars>>

\* f(q_);
AccessF(what) ==
    /\ apc = "in_f"
    /\ what \in Functions(q_)
    /\ q_' = f(q_, what)
    /\ apc' = "f_done"
    /\ UNCHANGED <<mutex_, workers, wpc, item, stop, ppc, op, calls, dtor_pc,
                   dtor_w, joined, appended, removed, after_stop, handled,
                   pendingAtDestroy, received, max_elements_arg, ctor_pc,
                   buffer_vars, adapter_vars>>

\* The lock is released at the end of access_queue; nothing is notified.
AccessReturn ==
    /\ apc = "f_done"
    /\ mutex_' = free
    /\ apc' = "idle"
    /\ UNCHANGED <<q_, workers, wpc, item, stop, ppc, op, calls, dtor_pc,
                   dtor_w, joined, appended, removed, after_stop, handled,
                   pendingAtDestroy, received, max_elements_arg, ctor_pc,
                   buffer_vars, adapter_vars>>

Access ==
    \/ AccessCall
    \/ AccessLock
    \/ \E what \in {"size", "clear"} : AccessF(what)
    \/ AccessReturn

AccessNext ==
    \/ \E p \in Producers : Producer(p)
    \/ \E w \in Workers : Worker(w)
    \/ Access
    \/ DtorBegin
    \/ DtorRun

AccessSpec == Init /\ [][AccessNext]_vars

\* The steps of a caller that is inside access_queue.
AccessRun ==
    \/ AccessLock
    \/ \E what \in {"size", "clear"} : AccessF(what)
    \/ AccessReturn

\* Fair scheduling with a caller of access_queue: every thread that can take
\* a step eventually takes one, and a thread at the lock is not overtaken for
\* ever by repeated access_queue calls (strong fairness); nothing obliges
\* anybody to make a call.
FairAccessSpec ==
    /\ AccessSpec
    /\ \A p \in Producers : SF_vars(ProducerRun(p))
    /\ \A w \in 1..MaxWorkers : SF_vars(w \in Workers /\ Worker(w))
    /\ SF_vars(AccessRun)
    /\ WF_vars(DtorRun)

\* ------------------------------------- circular_buffer used on its own
\* What the queue's variables hold while no queue is constructed.
TaskUnused ==
    /\ q_ = unconstructed
    /\ mutex_ = free
    /\ workers = 0
    /\ wpc = <<>>
    /\ item = <<>>
    /\ stop = <<>>
    /\ ppc = [p \in Producers |-> "idle"]
    /\ op = [p \in Producers |-> "none"]
    /\ calls = [p \in Producers |-> 0]
    /\ dtor_pc = "none"
    /\ dtor_w = 0
    /\ joined = {}
    /\ appended = <<>>
    /\ removed = <<>>
    /\ after_stop = [w \in Workers |-> <<>>]
    /\ handled = <<>>
    /\ pendingAtDestroy = <<>>
    /\ received = [k \in 1..Len(Ts) |-> <<>>]
    /\ max_elements_arg = nullopt
    /\ ctor_pc = "none"
    /\ apc = "idle"

\* b_.resize(max_size) value-initialises one element in each slot.
resize(max_size) == [i \in 1..max_size |-> 1]

\* new (b_.data() + i) T(...): one more object is constructed in slot i; no
\* destructor is run on what the slot holds.
placement_new(objs, i) == [objs EXCEPT ![i + 1] = @ + 1]

\* ctq::circular_buffer<T> buf(max_size), in a build with or without NDEBUG.
BufferInit ==
    /\ \E max_size \in 1..MaxRing : buf = circular_buffer(max_size)
    /\ pushed = <<>>
    /\ taken = 0
    /\ yielded = <<>>
    /\ misused = FALSE
    /\ ndebug \in BOOLEAN
    /\ aborted = FALSE
    /\ objects = resize(cb_capacity(buf))
    /\ TaskUnused
    /\ AdaptersUnused

\* The value of the n-th push_back / emplace_back call; all are distinct.
BufValue(n) == 10 * n

\* assert(cond) before a change of the buffer: the program aborts when the
\* condition is false and NDEBUG is not defined; otherwise the call goes on.
\* buf.push_back(v)
BufPushBack ==
    /\ ~aborted
    /\ Len(pushed) < MaxBufOps
    /\ pushed' = Append(pushed, BufValue(Len(pushed) + 1))
    /\ misused' = (misused \/ cb_size(buf) >= cb_capacity(buf))
    /\ IF ~ndebug /\ ~push_assert(buf)
       THEN aborted' = TRUE /\ buf' = buf
       ELSE aborted' = FALSE /\ buf' = cb_push_back(buf, BufValue(Len(pushed) + 1))
    /\ UNCHANGED <<taken, yielded, ndebug, objects, task_vars, adapter_vars>>

\* buf.emplace_back(v)
BufEmplaceBack ==
    /\ ~aborted
    /\ Len(pushed) < MaxBufOps
    /\ pushed' = Append(pushed, BufValue(Len(pushed) + 1))
    /\ misused' = (misused \/ cb_size(buf) >= cb_capacity(buf))
    /\ IF ~ndebug /\ ~push_assert(buf)
       THEN aborted' = TRUE /\ buf' = buf /\ objects' = objects
       ELSE /\ aborted' = FALSE
            /\ buf' = cb_emplace_back(buf, BufValue(Len(pushed) + 1))
            /\ objects' = placement_new(objects,
                              size_t(buf.read_pnt_ + buf.cnt_) % Len(buf.b_))
    /\ UNCHANGED <<taken, yielded, ndebug, task_vars, adapter_vars>>

\* buf.front()
BufFront ==
    /\ ~aborted
    /\ Len(yielded) < 2 * MaxBufOps
    /\ misused' = (misused \/ cb_empty(buf))
    /\ IF ~ndebug /\ ~front_assert(buf)
       THEN aborted' = TRUE /\ yielded' = yielded
       ELSE aborted' = FALSE /\ yielded' = Append(yielded, cb_front(buf))
    /\ buf' = cb_front_leaves(buf)
    /\ UNCHANGED <<pushed, taken, ndebug, objects, task_vars, adapter_vars>>

\* buf.pop_front(): no assert.
BufPopFront ==
    /\ ~aborted
    /\ taken < MaxBufOps
    /\ taken' = taken + 1
    /\ misused' = (misused \/ cb_empty(buf))
    /\ buf' = cb_pop_front(buf)
    /\ UNCHANGED <<pushed, yielded, ndebug, aborted, objects, task_vars,
                   adapter_vars>>

\* buf.next(): no assert.
BufNext ==
    /\ ~aborted
    /\ taken < MaxBufOps
    /\ Len(yielded) < 2 * MaxBufOps
    /\ taken' = taken + 1
    /\ misused' = (misused \/ cb_empty(buf))
    /\ buf' = cb_next(buf).buffer
    /\ yielded' = Append(yielded, cb_next(buf).ret)
    /\ UNCHANGED <<pushed, ndebug, aborted, objects, task_vars, adapter_vars>>

BufferNext ==
    \/ BufPushBack
    \/ BufEmplaceBack
    \/ BufFront
    \/ BufPopFront
    \/ BufNext

BufferSpec == BufferInit /\ [][BufferNext]_vars

\* ------------------------------------------- the backends side by side
\* One queue_adapter of each backend, constructed for the same use: the ring
\* with a capacity, the standard containers with the same bound or with none.
\* The same calls are then made on all of them, in the way basic_task_queue
\* makes them: an append when no bounded backend is full (the predicate of
\* push / emplace), front() and pop_front() when none is empty (the worker).
AdapterInit ==
    /\ \E k \in 1..MaxCap : \E m \in {nullopt, some(k)} :
          queues = [kind \in Backends |->
                       IF kind = "circular_buffer" THEN cb_adapter(some(k))
                       ELSE std_adapter(kind, m)]
    /\ results = [kind \in Backends |-> <<>>]
    /\ TaskUnused
    /\ BufferUnused

\* Whether push / emplace would go on to the append on this backend.
accepts(q) == has_value(max_elements(q)) => push_pred(q)

\* q_.push_back(item) on every backend
AdapterPushBack(v) ==
    /\ \A kind \in Backends :
          /\ accepts(queues[kind])
          /\ Len(results[kind]) + q_size(queues[kind]) < MaxBufOps
    /\ queues' = [kind \in Backends |-> q_push_back(queues[kind], v)]
    /\ UNCHANGED <<results, task_vars, buffer_vars>>

\* q_.emplace_back(args...) on every backend
AdapterEmplaceBack(v) ==
    /\ \A kind \in Backends :
          /\ accepts(queues[kind])
          /\ Len(results[kind]) + q_size(queues[kind]) < MaxBufOps
    /\ queues' = [kind \in Backends |-> q_emplace_back(queues[kind], v)]
    /\ UNCHANGED <<results, task_vars, buffer_vars>>

\* item = q_.front(); q_.pop_front(); cb_(item) on every backend
AdapterTake ==
    /\ \A kind \in Backends : worker_pred(queues[kind])
    /\ results' = [kind \in Backends |->
                      Append(results[kind], q_front(queues[kind]))]
    /\ queues' = [kind \in Backends |-> q_pop_front(queues[kind])]
    /\ UNCHANGED <<task_vars, buffer_vars>>

AdapterNext ==
    \/ \E v \in 1..MaxItems : AdapterPushBack(v)
    \/ \E v \in 1..MaxItems : AdapterEmplaceBack(v)
    \/ AdapterTake

AdapterSpec == AdapterInit /\ [][AdapterNext]_vars

\* ------------------------------------------------------------ properties
AllItems == {Item(p, n) : p \in Producers, n \in 1..MaxItems}

InSeq(v, s) == \E i \in 1..Len(s) : s[i] = v
Count(v, s) == Cardinality({i \in 1..Len(s) : s[i] = v})
IsPrefix(s, t) == Len(s) <= Len(t) /\ \A i \in 1..Len(s) : s[i] = t[i]
Bounded == has_value(max_elements(q_))
Full == Bounded /\ q_size(q_) = value(max_elements(q_))

\* C1: when the destructor has returned, the handler has been invoked exactly
\* once for each item that was in the container when destruction began (no
\* producer was pushing then; every handler call has returned).
C1_GracefulDrain ==
    dtor_pc = "done" =>
        \A i \in 1..Len(pendingAtDestroy) : Count(pendingAtDestroy[i], handled) = 1

\* C2: while the queue is not being destroyed, every appended item is
\* eventually passed to the handler (fair scheduling, every handler call
\* returns, no spurious wake-ups).
C2_EveryItemHandled ==
    \A v \in AllItems :
        InSeq(v, appended) ~> (InSeq(v, handled) \/ dtor_pc # "alive")

\* C3: a queue constructed with max_elements = k never holds more than k
\* items, whatever the interleaving of producers and workers.
C3_CapacityInvariant ==
    Bounded => q_size(q_) <= value(max_elements(q_))

\* Two producers inside push/emplace at once, one holding the lock with the
\* last slot free, the other kept out.
C3_Witness ==
    /\ Bounded
    /\ q_size(q_) = value(max_elements(q_)) - 1
    /\ \E p1, p2 \in Producers : ppc[p1] = "append" /\ ppc[p2] = "lock"

\* C4: the handler calls made so far are calls on distinct items, each of
\* which was appended before.
C4_NoDuplicateNoInvented ==
    \A i \in 1..Len(handled) :
        /\ InSeq(handled[i], appended)
        /\ \A j \in 1..Len(handled) : i # j => handled[i] # handled[j]

\* Two workers have each taken an item and run the handler at the same time.
C4_Witness ==
    /\ workers = 2
    /\ Len(handled) >= 2
    /\ \A w \in Workers : wpc[w] = "in_cb"

\* C5: with exactly one worker the handler is invoked on the items in the
\* order in which they were appended, none skipped.
C5_SingleWorkerFifo ==
    workers = 1 => IsPrefix(handled, appended)

\* One producer has pushed three items and the single worker has handled them.
C5_Witness ==
    /\ workers = 1
    /\ \E p \in Producers : calls[p] >= 3
    /\ Len(handled) >= 3


\* C6: a producer inside push/emplace that has not appended yet neither
\* appends nor returns in a step taken while the container holds
\* max_elements items; only a removal lets it through.
C6_BlockedWhileFull ==
    [][\A p \in Producers :
          (Full /\ ppc[p] \in {"lock", "wait"})
              => /\ ppc'[p] \in {"lock", "wait"}
                 /\ ~InSeq(Item(p, calls[p]), appended')]_vars

\* A producer has found the queue full and is blocked in cv_.wait.
C6_Witness ==
    \E p \in Producers : ppc[p] = "wait" /\ Full /\ ~InSeq(Item(p, calls[p]), appended)

\* C7: a producer blocked in push/emplace on a full queue eventually appends
\* its item and returns (workers running, every handler call returns).
C7_BlockedProducerReleased ==
    \A p \in Producers : (ppc[p] = "wait") ~> (ppc[p] = "idle")

\* C8: once the destructor has returned every worker thread has exited: none
\* is running, in a handler, or touching q_, mutex_ or cv_.
C8_JoinOnDestroy ==
    dtor_pc = "done" => \A w \in Workers : wpc[w] = "exited"

\* The destructor has returned for a queue with two workers that handled items.
C8_Witness ==
    dtor_pc = "done" /\ workers = 2 /\ Len(handled) >= 1

\* C9: a worker exits only in a step taken with stop requested and the
\* container empty.
C9_ExitOnlyWhenEmpty ==
    [][\A w \in Workers :
          (wpc[w] # "exited" /\ wpc'[w] = "exited") => (stop[w] /\ q_empty(q_))]_vars

\* C10: once entered, the destructor eventually returns, whatever the queue
\* holds and however many workers there are.
C10_DestructionCompletes ==
    (dtor_pc # "alive") ~> (dtor_pc = "done")

\* The destructor has been entered while one worker is blocked on the empty
\* queue and the other is inside the handler.
C10_Witness ==
    /\ dtor_pc = "workers"
    /\ workers = 2
    /\ q_empty(q_)
    /\ \E w1, w2 \in Workers : wpc[w1] = "wait" /\ wpc[w2] = "in_cb"

\* The items of s that hold an alternative of type T, in the order of s.
OfType(s, T) ==
    LET holds(v) == visit(v) = T
    IN  SelectSeq(s, holds)

\* C11: every item passed to cb_ reaches exactly one callback of the tuple,
\* the one registered for the type the item holds; with a single worker each
\* callback receives the items of its type in the order they were appended.
C11_TypedDispatch ==
    /\ \A k \in 1..Len(Ts) : \A i \in 1..Len(received[k]) :
          visit(received[k][i]) = Ts[k]
    /\ \A i \in 1..Len(handled) :
          Cardinality({k \in 1..Len(Ts) : InSeq(handled[i], received[k])}) = 1
    /\ workers = 1 =>
          \A k \in 1..Len(Ts) : IsPrefix(received[k], OfType(appended, Ts[k]))

\* One worker has dispatched items of both types: two to the string callback
\* with one for the int callback in between.
C11_Witness ==
    /\ workers = 1
    /\ Len(received[1]) >= 1
    /\ Len(received[2]) >= 2
    /\ Len(handled) >= 3

\* C12: given the same appends, the vector, list, deque and circular_buffer
\* backends hold the same elements in the same order, are empty together, and
\* have handed the same sequence of elements to the handler.
C12_BackendsAgree ==
    \A k1, k2 \in Backends :
        /\ results[k1] = results[k2]
        /\ Contents(queues[k1]) = Contents(queues[k2])
        /\ q_size(queues[k1]) = q_size(queues[k2])
        /\ q_empty(queues[k1]) = q_empty(queues[k2])

\* Differing elements have gone through a ring of capacity 2, enough for its
\* read position to wrap, and through the other backends; one more is queued.
C12_Witness ==
    /\ cb_capacity(queues["circular_buffer"]) = 2
    /\ Len(results["vector"]) = MaxBufOps - 1
    /\ q_size(queues["vector"]) = 1
    /\ \E i, j \in 1..Len(results["vector"]) :
          results["vector"][i] # results["vector"][j]

\* The elements of buf that were appended and not yet taken, oldest first.
Live == SubSeq(pushed, taken + 1, Len(pushed))

\* C13: as long as every call on a circular_buffer kept 0 <= size <= capacity,
\* the buffer holds the appended elements not yet taken, in append order, and
\* each next() / front() returns the oldest of them, also after the write
\* index has wrapped past the end of the storage.
C13_RingFifo ==
    [][~misused' =>
          /\ ~aborted'
          /\ cb_size(buf') = Len(pushed') - taken'
          /\ Contents(buf') = SubSeq(pushed', taken' + 1, Len(pushed'))
          /\ yielded' # yielded => yielded'[Len(yielded')] = pushed[taken + 1]]_vars

\* Capacity 3: 10, 20, 30 pushed, one taken, 40 pushed into the slot freed at
\* the start of the storage, and next() has returned 10, 20, 30, 40.
C13_Witness ==
    /\ cb_capacity(buf) = 3
    /\ ~misused
    /\ pushed = <<10, 20, 30, 40>>
    /\ yielded = <<10, 20, 30, 40>>
    /\ taken = 4
    /\ cb_empty(buf)
    /\ buf.b_ = <<40, 20, 30>>

\* C14: in a build with assertions enabled, a push_back / emplace_back call on
\* a buffer with size() = capacity() aborts and leaves the buffer as it was.
C14_FullPushRejected ==
    [][(~ndebug /\ cb_size(buf) = cb_capacity(buf) /\ pushed' # pushed)
          => (aborted' /\ buf' = buf)]_vars

\* C15: in a build with assertions enabled, a pop_front / next call on an
\* empty buffer aborts and leaves count and read position as they were.
C15_EmptyPopRejected ==
    [][(~ndebug /\ cb_empty(buf) /\ taken' # taken)
          => (aborted' /\ buf' = buf)]_vars

\* C16: a circular_buffer backend given no max_elements never gets as far as
\* starting a worker, and its constructor never returns a queue.
C16_RingNeedsCapacity ==
    (IsRing(q_) /\ max_elements_arg = nullopt) =>
        /\ ctor_pc # "done"
        /\ \A w \in Workers : wpc[w] = "unstarted"

\* The threads that are between acquiring mutex_ and releasing it, i.e. at a
\* statement that reads or changes q_.
InSection ==
    {P(p) : p \in {x \in Producers : ppc[x] = "append"}}
    \cup {W(w) : w \in {x \in Workers : wpc[x] \in {"pop", "unlock"}}}
    \cup (IF apc \in {"in_f", "f_done"} THEN {A} ELSE {})

\* C17: at most one thread at a time is at a statement that touches the
\* container, and it owns mutex_; q_ changes only in a step of a thread that
\* is in such a section, and while the function passed to access_queue runs
\* no other thread appends or removes anything.
C17_SerializedAccess ==
    [][/\ Cardinality(InSection') <= 1
       /\ \A t \in InSection' : mutex_' = t
       /\ q_' # q_ => InSection # {} /\ mutex_ \in InSection
       /\ (apc = "in_f" /\ apc' = "in_f") =>
              (q_' = q_ /\ appended' = appended /\ removed' = removed)]_vars

\* The function passed to access_queue is running on a non-empty container
\* while a producer and a worker are both kept at the lock.
C17_Witness ==
    /\ apc = "in_f"
    /\ ~q_empty(q_)
    /\ \E p \in Producers : ppc[p] = "lock"
    /\ \E w \in Workers : wpc[w] = "lock"

\* C18: whatever the number of workers, the items are taken from the
\* container in exactly the order in which they were appended; nothing is
\* said of the order in which the handler calls run or complete.
C18_DequeueFifo ==
    IsPrefix(removed, appended)

\* Two workers: three items have been taken in order, and the worker that has
\* just taken the third still holds the lock while the other is in the handler.
C18_Witness ==
    /\ workers = 2
    /\ Len(removed) = 3
    /\ \E w1, w2 \in Workers : wpc[w1] = "unlock" /\ wpc[w2] = "in_cb"

\* C19: on a queue constructed without max_elements no producer is ever
\* blocked in cv_.wait, whatever the size of the container.
C19_UnboundedNeverWaits ==
    max_elements_arg = nullopt => \A p \in Producers : ppc[p] # "wait"

\* An unbounded queue holds more items than any bound tried and a producer
\* has appended the last of them without waiting.
C19_Witness ==
    /\ max_elements_arg = nullopt
    /\ q_size(q_) > MaxCap
    /\ \E p \in Producers : ppc[p] = "notify"

\* The producer that passed item v to push / emplace.
ProducerOf(v) == ((v - 1) \div MaxItems) + 1

\* C20: a step in which emplace stores its element changes the container
\* exactly as push of that element would, and with a single worker the items
\* of each producer, pushed or emplaced, are handled in the order of its calls.
C20_EmplaceAsPush ==
    [][/\ \A p \in Producers :
            (ppc[p] = "append" /\ ppc'[p] = "notify" /\ op[p] = "emplace")
                => /\ q_' = q_push_back(q_, Item(p, calls[p]))
                   /\ Contents(q_') = Append(Contents(q_), Item(p, calls[p]))
       /\ workers = 1 =>
            \A i, j \in 1..Len(handled') :
                (i < j /\ ProducerOf(handled'[i]) = ProducerOf(handled'[j]))
                    => handled'[i] < handled'[j]]_vars

\* A producer's third call, an emplace, has stored its element behind others
\* still queued, after the single worker handled an earlier item.
C20_Witness ==
    /\ workers = 1
    /\ Len(handled) >= 1
    /\ q_size(q_) >= 2
    /\ \E p \in Producers : calls[p] = 3 /\ op[p] = "emplace" /\ ppc[p] = "notify"

\* C21: a worker inside the handler does not own mutex_.
C21_HandlerOutsideLock ==
    \A w \in Workers : wpc[w] = "in_cb" => mutex_ # W(w)

\* While one worker is inside the handler a producer owns the lock and is
\* about to append, and the other worker is at the lock to dequeue.
C21_Witness ==
    /\ workers = 2
    /\ \E w1, w2 \in Workers :
          /\ wpc[w1] = "in_cb"
          /\ wpc[w2] = "lock"
    /\ \E p \in Producers : ppc[p] = "append" /\ mutex_ = P(p)
    /\ ~q_empty(q_)

\* C22: when a producer's notify_one is issued while a worker is blocked in
\* cv_.wait, a blocked worker is among the threads it wakes.
C22_NotifyReachesWorker ==
    [][\A p \in Producers :
          (/\ ppc[p] = "notify"
           /\ ppc'[p] = "idle"
           /\ \E w \in Workers : wpc[w] = "wait")
              => \E w \in Workers : wpc[w] = "wait" /\ wpc'[w] = "lock"]_vars

C24_ClearReleasesProducers ==
    \A p \in Producers :
        (ppc[p] = "wait" /\ Bounded /\ ~Full) ~> (ppc[p] = "idle")

C26_WaitsOnlyWhenEmpty ==
    \A w \in Workers :
        wpc[w] = "wait" =>
            /\ ~stop[w]
            /\ \/ q_empty(q_)
               \/ \E p \in Producers : ppc[p] \in {"lock", "append", "notify"}
               \/ \E w2 \in Workers : wpc[w2] \notin {"wait", "exited"}

\* C27 (as stated): a push or emplace call returns only after having appended
\* its one item, and a step that requests a stop leaves every producer that
\* is blocked on the full queue blocked (it is neither woken nor aborted).
C27_StopNeverWakesProducer ==
    [][\A p \in Producers :
          /\ (ppc[p] # "idle" /\ ppc'[p] = "idle")
                => (ppc[p] = "notify" /\ Count(Item(p, calls[p]), appended) = 1)
          /\ (stop' # stop /\ ppc[p] = "wait") => ppc'[p] = "wait"]_vars

\* C27 (amended): a push or emplace call returns only after having appended
\* its one item exactly once; a blocked producer leaves the wait only to
\* re-acquire the lock and look at the size again, and goes on to append only
\* when the queue is below max_elements.  A stop request may wake it (the
\* notify_all of the stop callback on the shared cv_) but makes it neither
\* append nor return.
C27_NoCancellation ==
    [][\A p \in Producers :
          /\ (ppc[p] # "idle" /\ ppc'[p] = "idle")
                => (ppc[p] = "notify" /\ Count(Item(p, calls[p]), appended) = 1)
          /\ (ppc[p] = "wait" /\ ppc'[p] # "wait")
                => (ppc'[p] \in {"lock", "crashed"} /\ appended' = appended)
          /\ (ppc[p] # "append" /\ ppc'[p] = "append")
                => (ppc[p] = "lock" /\ (Bounded => ~Full))
          /\ stop' # stop
                => (appended' = appended /\ (ppc[p] # "idle" => ppc'[p] # "idle"))]_vars

\* The destructor has requested a worker's stop and waits for it.  Every
\* producer is inside a call and has been woken; one of them at least was
\* blocked when destruction began.  The calls that returned had notified
\* before that and no worker has popped: the stop request woke the blocked
\* producer, which is about to find the queue full and block again.
C27_Witness ==
    /\ dtor_pc = "join"
    /\ Full
    /\ removed = <<>>
    /\ \A p \in Producers : ppc[p] = "lock"

\* The threads a step takes out of the wait on cv_ (a prime makes it the
\* step's own set).
WokenBy(before_p, after_p, before_w, after_w) ==
    {P(p) : p \in {x \in Producers : before_p[x] = "wait" /\ after_p[x] = "lock"}}
    \cup {W(w) : w \in {x \in Workers : before_w[x] = "wait" /\ after_w[x] = "lock"}}

\* C28 (as stated): in a bounded queue the worker pops under the lock, then
\* releases the lock, then releases one waiting producer, then invokes the
\* handler: no thread is woken by a worker that still owns mutex_, and a pop
\* wakes at most one thread, a producer; unbounded, a pop wakes nobody.
C28_UnlockThenReleaseOne ==
    [][\A w \in Workers :
          (wpc[w] = "pop" /\ wpc'[w] # "pop") =>
              LET S == WokenBy(ppc, ppc', wpc, wpc')
              IN  /\ mutex_ = W(w)
                  /\ S # {} => (Bounded /\ mutex_' # W(w))
                  /\ Cardinality(S) <= 1
                  /\ \A t \in S : t[1] = "P"]_vars

\* C28 (amended): in a bounded queue the worker pops one item under the lock,
\* notifies every thread waiting on cv_ (producers and workers) while it
\* still owns the lock, then releases the lock and only then invokes the
\* handler; in an unbounded queue the pop notifies nobody.
C28_PopNotifyAllUnlockCall ==
    [][\A w \in Workers :
          /\ (wpc[w] = "pop" /\ wpc'[w] # "pop") =>
                /\ wpc'[w] = "unlock"
                /\ mutex_ = W(w) /\ mutex_' = W(w)
                /\ Len(removed') = Len(removed) + 1
                /\ q_size(q_') = q_size(q_) - 1
                /\ WokenBy(ppc, ppc', wpc, wpc')
                      = (IF Bounded THEN Waiting ELSE {})
          /\ (wpc[w] = "unlock" /\ wpc'[w] # "unlock") =>
                /\ wpc'[w] = "in_cb"
                /\ mutex_ = W(w) /\ mutex_' = free
                /\ WokenBy(ppc, ppc', wpc, wpc') = {}
          /\ (wpc[w] # "in_cb" /\ wpc'[w] = "in_cb") => wpc[w] = "unlock"]_vars

\* A worker of a bounded queue has popped and still owns the lock; both
\* producers, which the full queue had blocked, and the other worker are
\* out of the wait and queue up for mutex_.
C28_Witness ==
    /\ Bounded
    /\ workers = 2
    /\ \E w \in Workers :
          /\ wpc[w] = "unlock" /\ mutex_ = W(w) /\ has_value(item[w])
          /\ \A o \in Workers \ {w} : wpc[o] = "lock"
    /\ \A p \in Producers : ppc[p] = "lock"
    /\ TotalCalls = MaxItems

\* C29: what a worker takes with front() is what pop_front() removes from the
\* container, and every item so removed is either still in the hands of the
\* worker that popped it (which is then on its way to the handler call,
\* whether or not its stop has been requested meanwhile) or has been passed
\* to the handler exactly once.
C29_RemovedIsHandled ==
    /\ \A v \in AllItems :
          /\ Count(v, appended) = Count(v, Contents(q_)) + Count(v, removed)
          /\ Count(v, removed)
                = Count(v, handled)
                    + Cardinality({w \in Workers : item[w] = some(v)})
          /\ Count(v, handled) <= 1
    /\ \A w \in Workers : has_value(item[w]) <=> wpc[w] = "unlock"

\* The stop of a worker was requested after it had popped an item and before
\* it called the handler: the item is in its hands; an earlier item has been
\* handled and another one is left in the container.
C29_Witness ==
    \E w \in Workers :
        /\ wpc[w] = "unlock"
        /\ stop[w]
        /\ after_stop[w] = <<>>
        /\ has_value(item[w])
        /\ removed = Append(handled, value(item[w]))
        /\ handled # <<>>
        /\ ~q_empty(q_)

\* The worker threads that exist (started and not yet returned), and those
\* that are inside a handler call.
Threads == {w \in Workers : wpc[w] \notin {"unstarted", "exited"}}
InHandler == {w \in Workers : wpc[w] = "in_cb"}

\* C30: from the return of the constructor to the start of the destructor
\* exactly `workers` worker threads exist, and never more at any time; a
\* thread inside a handler call holds no further item, so at most `workers`
\* handler calls are in progress, and at most one when workers = 1.
C30_FixedPool ==
    /\ Cardinality(Threads) <= workers
    /\ (ctor_pc = "done" /\ dtor_pc = "alive") => Cardinality(Threads) = workers
    /\ \A w \in InHandler : item[w] = nullopt
    /\ Cardinality(InHandler) <= workers
    /\ workers = 1 => Cardinality(InHandler) <= 1
    /\ Len(handled) <= Len(removed)
    /\ Len(removed) - Len(handled) <= workers - Cardinality(InHandler)

\* A queue constructed with workers = 2: both threads are inside a handler
\* call, a third item waits in the container.
C30_Witness ==
    /\ ctor_pc = "done"
    /\ dtor_pc = "alive"
    /\ workers = 2
    /\ Cardinality(InHandler) = 2
    /\ Len(handled) = 2
    /\ ~q_empty(q_)

\* The items of s that producer p passed, in the order they have in s.
ByProducer(s, p) ==
    LET from_p(v) == ProducerOf(v) = p
    IN  SelectSeq(s, from_p)

\* C31: with a single worker, the handler calls made on the items of any one
\* producer are calls on its first, second, ... item in that order, none
\* skipped; the handling order is a merge of the producers' own sequences.
C31_PerProducerOrder ==
    workers = 1 =>
        \A p \in Producers :
            \A i \in 1..Len(ByProducer(handled, p)) :
                ByProducer(handled, p)[i] = Item(p, i)

\* One worker: a producer whose first item has been handled is blocked in its
\* second call on the full queue, which holds an item of the other producer.
C31_Witness ==
    /\ workers = 1
    /\ Full
    /\ \E p, o \in Producers :
          /\ p # o
          /\ ppc[p] = "wait"
          /\ calls[p] = 2
          /\ InSeq(Item(p, 1), handled)
          /\ InSeq(Item(o, 1), Contents(q_))

\* C32: a next() call on a non-empty circular_buffer returns what front()
\* would have returned and leaves the buffer (b_, cnt_, read_pnt_) as
\* pop_front() would have left it.
C32_NextIsFrontThenPop ==
    [][(taken' = taken + 1 /\ Len(yielded') = Len(yielded) + 1 /\ ~cb_empty(buf))
          => /\ yielded'[Len(yielded')] = cb_front(buf)
             /\ buf' = cb_pop_front(buf)
             /\ cb_next(buf) = [buffer |-> cb_pop_front(buf), ret |-> cb_front(buf)]]_vars

\* Capacity 3 with 10, 20, 30 appended: next() has returned 10 and two
\* elements are left, 20 at the read position.
C32_Witness ==
    /\ cb_capacity(buf) = 3
    /\ ~misused
    /\ pushed = <<10, 20, 30>>
    /\ yielded = <<10>>
    /\ taken = 1
    /\ cb_size(buf) = 2
    /\ buf.read_pnt_ = 1

\* C33: a front() call on a non-empty circular_buffer returns the element at
\* the read position and leaves b_, cnt_ and read_pnt_ as they were, so that
\* size() is unchanged and another front() returns the same element.
C33_FrontReadsOnly ==
    [][(Len(yielded') = Len(yielded) + 1 /\ taken' = taken /\ ~cb_empty(buf))
          => /\ yielded'[Len(yielded')] = buf.b_[buf.read_pnt_ + 1]
             /\ buf' = buf
             /\ cb_size(buf') = cb_size(buf)
             /\ cb_front(buf') = yielded'[Len(yielded')]]_vars

\* Capacity 3 with 10, 20, 30 appended and 10 taken by next(): front() has
\* returned 20 twice and the size is still 2.
C33_Witness ==
    /\ cb_capacity(buf) = 3
    /\ ~misused
    /\ pushed = <<10, 20, 30>>
    /\ yielded = <<10, 20, 20>>
    /\ taken = 1
    /\ cb_size(buf) = 2

\* C34: a push_back or emplace_back call on a circular_buffer with
\* cnt_ < capacity stores the new element in b_[(read_pnt_ + cnt_) mod
\* capacity], adds exactly one to cnt_ and leaves read_pnt_ and every other
\* slot of b_ as they were.
C34_AppendFrame ==
    [][(Len(pushed') = Len(pushed) + 1 /\ cb_size(buf) < cb_capacity(buf))
          => LET i == (buf.read_pnt_ + buf.cnt_) % cb_capacity(buf)
             IN  /\ buf'.b_[i + 1] = pushed'[Len(pushed')]
                 /\ buf'.cnt_ = buf.cnt_ + 1
                 /\ buf'.read_pnt_ = buf.read_pnt_
                 /\ Len(buf'.b_) = Len(buf.b_)
                 /\ \A j \in 0..(cb_capacity(buf) - 1) :
                       j # i => buf'.b_[j + 1] = buf.b_[j + 1]]_vars

\* Capacity 2: 10 and 20 were appended, 10 was taken, and 30 has been stored
\* in slot 0, behind the read position 1; the count is 2 again.
C34_Witness ==
    /\ cb_capacity(buf) = 2
    /\ ~misused
    /\ pushed = <<10, 20, 30>>
    /\ taken = 1
    /\ buf.b_ = <<30, 20>>
    /\ buf.read_pnt_ = 1
    /\ buf.cnt_ = 2

\* C35: a queue over circular_buffer always reports a max_elements(), which
\* is the buffer's capacity(), which is the max_elements passed to the
\* constructor and never changes; a producer that has the lock blocks
\* exactly when size() = capacity().
C35_RingBoundIsArgument ==
    [][IsRing(q_') =>
          /\ has_value(max_elements(q_'))
          /\ value(max_elements(q_')) = cb_capacity(q_')
          /\ max_elements(q_') = max_elements_arg
          /\ IsRing(q_) => cb_capacity(q_') = cb_capacity(q_)
          /\ \A p \in Producers :
                (ppc[p] = "lock" /\ ppc'[p] # "lock")
                    => (ppc'[p] = "wait" <=> q_size(q_) = cb_capacity(q_))]_vars

\* C36: the storage of a circular_buffer never holds, in one slot, more than
\* one object that was constructed and not destroyed: emplace_back destroys
\* the occupant of a slot before it constructs the new element there.
C36_OneObjectPerSlot ==
    \A i \in 1..Len(objects) : objects[i] <= 1

\* C37: on an unbounded queue a push made from inside the handler returns
\* (the worker thread does not own mutex_ while it runs the handler), and the
\* item so pushed is handled later on, unless the queue is destroyed first.
C37_HandlerPushHandled ==
    /\ \A w \in 1..MaxWorkers :
          (w \in Workers /\ ~Bounded /\ wpc[w] = "cb_lock")
              ~> (w \in Workers /\ wpc[w] = "cb_done")
    /\ \A v \in HandlerItems :
          (~Bounded /\ InSeq(v, appended))
              ~> (InSeq(v, handled) \/ dtor_pc # "alive")

\* An unbounded queue with one worker: while handling an item pushed from
\* outside the handler pushed an item, and while handling that one it pushed
\* another; both have been handled by the same worker.
C37_Witness ==
    /\ ~Bounded
    /\ workers = 1
    /\ dtor_pc = "alive"
    /\ \A v \in HandlerItems : InSeq(v, handled)
    /\ Len(handled) = MaxHandlerPushes + 1

====
